---- MODULE Spec2Model ----
(***************************************************************************)
(* Text extraction of pdf_tools: FontInfo::decode, FontCache,              *)
(* ops_with_text_state and page_text (src/src/lib.rs) and items2text       *)
(* and main (src/pdf2text/src/main.rs), and the typed accessors of         *)
(* Primitive (src/src/file/object.rs).                                     *)
(*                                                                         *)
(* Strings (Rust String / &str) are sequences of Unicode scalar values,    *)
(* byte strings (&[u8]) are sequences of 0..255.  Coordinates (f32) are    *)
(* fixed-point integers counting tenths of a user-space unit; matrix       *)
(* scale entries (m11, m12, m21, m22) are whole numbers.                   *)
(***************************************************************************)
EXTENDS Integers, Sequences, FiniteSets, TLC

VARIABLES
    \* ---- FontInfo::decode called on its own (SpecDecode)
    dfont,        \* the FontInfo decode is called on
    data,         \* the byte string handed to decode
    dout,         \* decode's result: [ok, out, codes], or NoResult before the call
    \* ---- page_text over ops_with_text_state (Spec)
    page,         \* the page: its font resources and graphics states
    pc,           \* "start", "ops" (inside a content stream), "done"
    fonts,        \* FontCache.fonts of the running scan
    state,        \* the scan's current TextState
    out,          \* page_text's output buffer
    prev_offset,  \* page_text's prev_offset
    ret,          \* page_text's return value: "none", "Ok", "Err"
    nops,         \* operators processed so far
    ncont,        \* content streams begun so far
    step,         \* the last loop iteration: operator, text state, word, separator,
                  \* output before it
    \* ---- items2text (SpecLayout)
    frags,        \* the text spans of the page, in the order they were drawn
    items,        \* the Vec<&TextSpan> handed to items2text
    bpc,          \* "sort", "loop", "done"
    bi,           \* items processed by the loop
    res,          \* items2text's result string
    prev_x,
    prev_y,
    bstep,        \* the last iteration of items2text's loop
    si,           \* fragments of items fed to page_text's separator logic
    \* ---- the Rc<TextState> cells of ops_with_text_state (SpecTrack)
    heap,         \* the TextState cells allocated by Rc::new, in allocation order
    sptr,         \* the cell the scan's `state` points to (0 before the first scan)
    emitted,      \* the (op, Rc<TextState>) pairs the iterator has yielded
    \* ---- a typed accessor of Primitive (SpecObject)
    objects,      \* the reader's object table: object number -> Primitive or absent
    receiver,     \* the Primitive the accessor is called on
    accessor,     \* "Array", "Dictionary" or "Stream"
    cur,          \* `self` of the innermost accessor call
    derefs,       \* calls of reader.dereference made so far (counted up to MaxDerefs)
    visited,      \* the object numbers dereferenced so far
    result,       \* the accessor's Result, or NoAccess while it runs
    \* ---- main of pdf2text (SpecMain)
    doc,          \* file.pages(): one entry per page
    arg_page,     \* args.page: 0 for None, i + 1 for Some(i)
    mpc,          \* "pages", "finish", "exit", "panic"
    page_nr,      \* pages taken from the iterator so far
    traced,       \* the text drawn into the Tracer backend, in order
    printed       \* what main wrote to the output: [written, text]

vars == <<dfont, data, dout, page, pc, fonts, state, out, prev_offset, ret, nops,
          ncont, step, frags, items, bpc, bi, res, prev_x, prev_y, bstep, si,
          heap, sptr, emitted,
          objects, receiver, accessor, cur, derefs, visited, result,
          doc, arg_page, mpc, page_nr, traced, printed>>

decodeVars == <<dfont, data, dout>>
pageVars == <<page, pc, fonts, state, ret, nops, ncont>>
joinVars == <<out, prev_offset, step>>
batchVars == <<frags, items, bpc, bi, res, prev_x, prev_y, bstep, si>>
trackVars == <<heap, sptr, emitted>>
objectVars == <<objects, receiver, accessor, cur, derefs, visited, result>>
mainVars == <<doc, arg_page, mpc, page_nr, traced, printed>>

(***************************************************************************)
(* Characters and strings                                                  *)
(***************************************************************************)
SPACE == 32
NEWLINE == 10
HYPHEN == 45

Abs(n) == IF n < 0 THEN -n ELSE n

\* whole user-space units as fixed-point tenths
Fx(n) == n * 10

\* Rust's `as i32` on a float: truncation towards zero (v is `den`-ths)
TruncDiv(v, den) == IF v >= 0 THEN v \div den ELSE -((-v) \div den)

is_ascii(c) == c < 128

is_ascii_alphanumeric(c) == (c \in 48..57) \/ (c \in 65..90) \/ (c \in 97..122)

ends_with(s, c) == Len(s) > 0 /\ s[Len(s)] = c

starts_with(s, p) == Len(s) >= Len(p) /\ SubSeq(s, 1, Len(p)) = p

\* str::contains
contains(s, p) == \E i \in 0..(Len(s) - Len(p)) : SubSeq(s, i + 1, i + Len(p)) = p

RECURSIVE Flatten(_)
Flatten(ss) == IF ss = <<>> THEN <<>> ELSE Head(ss) \o Flatten(Tail(ss))

BOM == <<254, 255>>
GBK == <<71, 66, 75>>
SoftHyphen == <<16, 40>>

(***************************************************************************)
(* UTF-8 and UTF-16BE decoding, as std::str::from_utf8 and                 *)
(* char::decode_utf16 over 2-byte big-endian units do it                   *)
(***************************************************************************)
IsCont(b) == b \in 128..191

\* [ok, s]: s is the text of a valid UTF-8 byte string
RECURSIVE Utf8Decode(_)
Utf8Decode(d) ==
    IF d = <<>> THEN [ok |-> TRUE, s |-> <<>>]
    ELSE LET b == d[1]
             n == IF b < 128 THEN 1
                  ELSE IF b \in 194..223 THEN 2
                  ELSE IF b \in 224..239 THEN 3
                  ELSE IF b \in 240..244 THEN 4
                  ELSE 0
             wellFormed ==
                 /\ n > 0
                 /\ Len(d) >= n
                 /\ \A i \in 2..n : IsCont(d[i])
                 /\ (b = 224 => d[2] >= 160)
                 /\ (b = 237 => d[2] <= 159)
                 /\ (b = 240 => d[2] >= 144)
                 /\ (b = 244 => d[2] <= 143)
             cp == IF n = 1 THEN b
                   ELSE IF n = 2 THEN (b - 192) * 64 + (d[2] - 128)
                   ELSE IF n = 3 THEN (b - 224) * 4096 + (d[2] - 128) * 64 + (d[3] - 128)
                   ELSE (b - 240) * 262144 + (d[2] - 128) * 4096
                        + (d[3] - 128) * 64 + (d[4] - 128)
         IN IF ~wellFormed THEN [ok |-> FALSE, s |-> <<>>]
            ELSE LET rest == Utf8Decode(SubSeq(d, n + 1, Len(d)))
                 IN [ok |-> rest.ok, s |-> <<cp>> \o rest.s]

from_be_bytes(hi, lo) == hi * 256 + lo

\* the 2-byte big-endian units of a byte string of even length
Units(d) == [i \in 1..(Len(d) \div 2) |-> from_be_bytes(d[2 * i - 1], d[2 * i])]

IsSurrogate(u) == u \in 55296..57343
IsLowSurrogate(u) == u \in 56320..57343

\* a lossy decoder: an unpaired surrogate becomes U+FFFD and decoding goes on
RECURSIVE Utf16CharsLossy(_)
Utf16CharsLossy(us) ==
    IF us = <<>> THEN [ok |-> TRUE, s |-> <<>>]
    ELSE LET u == us[1]
         IN IF ~IsSurrogate(u)
            THEN [ok |-> TRUE, s |-> <<u>> \o Utf16CharsLossy(Tail(us)).s]
            ELSE IF IsLowSurrogate(u) \/ Len(us) < 2 \/ ~IsLowSurrogate(us[2])
            THEN [ok |-> TRUE, s |-> <<65533>> \o Utf16CharsLossy(Tail(us)).s]
            ELSE [ok |-> TRUE,
                  s |-> <<65536 + (u - 55296) * 1024 + (us[2] - 56320)>>
                        \o Utf16CharsLossy(SubSeq(us, 3, Len(us))).s]

\* [ok, s]: the characters pushed up to the first Err item, and whether there was none
RECURSIVE Utf16Chars(_)
Utf16Chars(us) ==
    IF us = <<>> THEN [ok |-> TRUE, s |-> <<>>]
    ELSE LET u == us[1]
         IN IF ~IsSurrogate(u)
            THEN LET rest == Utf16Chars(Tail(us))
                 IN [ok |-> rest.ok, s |-> <<u>> \o rest.s]
            ELSE IF IsLowSurrogate(u) \/ Len(us) < 2 \/ ~IsLowSurrogate(us[2])
            THEN [ok |-> FALSE, s |-> <<>>]
            ELSE LET c == 65536 + (u - 55296) * 1024 + (us[2] - 56320)
                     rest == Utf16Chars(SubSeq(us, 3, Len(us)))
                 IN [ok |-> rest.ok, s |-> <<c>> \o rest.s]

(***************************************************************************)
(* FontInfo::decode                                                        *)
(***************************************************************************)
NoMap == <<>>

DecoderNone == [kind |-> "None", cmap |-> NoMap, base |-> NoMap, differences |-> NoMap]
DecoderCmap(cmap) == [kind |-> "Cmap", cmap |-> cmap, base |-> NoMap, differences |-> NoMap]
DecoderMap(base, differences) ==
    [kind |-> "Map", cmap |-> NoMap, base |-> base, differences |-> differences]

DefaultFontInfo == [name |-> <<>>, decoder |-> DecoderNone]

\* data.windows(2), each window read as a big-endian u16
windows2(d) ==
    IF Len(d) < 2 THEN <<>>
    ELSE [i \in 1..(Len(d) - 1) |-> from_be_bytes(d[i], d[i + 1])]

\* the codes the Cmap branch looks up in the ToUnicode map, in order
CmapCodes(name, d) ==
    IF d = SoftHyphen THEN <<>>
    ELSE IF contains(name, GBK) \/ starts_with(d, BOM) THEN windows2(d)
    ELSE d

\* ToUnicodeMap::get / DifferenceForwardMap::get: None is the empty string here
MapGet(m, code) == IF code \in DOMAIN m THEN m[code] ELSE <<>>

DifferenceGet(dec, b) ==
    IF b \in DOMAIN dec.differences THEN dec.differences[b] ELSE MapGet(dec.base, b)

\* decode with a raw decoder that drops the text instead of passing it through
decodeDroppingRaw(font, d, o) ==
    IF font.decoder.kind = "Cmap" THEN
        LET codes == CmapCodes(font.name, d)
        IN [ok |-> TRUE,
            out |-> IF d = SoftHyphen THEN o \o <<HYPHEN>>
                    ELSE o \o Flatten([i \in 1..Len(codes) |-> MapGet(font.decoder.cmap, codes[i])]),
            codes |-> codes]
    ELSE IF font.decoder.kind = "Map" THEN
        [ok |-> TRUE,
         out |-> o \o Flatten([i \in 1..Len(d) |-> DifferenceGet(font.decoder, d[i])]),
         codes |-> d]
    ELSE [ok |-> TRUE, out |-> o, codes |-> <<>>]

\* decode(&self, data, out): [ok, out, codes]; out is the buffer as the call leaves it
decode(font, d, o) ==
    IF font.decoder.kind = "Cmap" THEN
        LET codes == CmapCodes(font.name, d)
        IN [ok |-> TRUE,
            out |-> IF d = SoftHyphen THEN o \o <<HYPHEN>>
                    ELSE o \o Flatten([i \in 1..Len(codes) |-> MapGet(font.decoder.cmap, codes[i])]),
            codes |-> codes]
    ELSE IF font.decoder.kind = "Map" THEN
        [ok |-> TRUE,
         out |-> o \o Flatten([i \in 1..Len(d) |-> DifferenceGet(font.decoder, d[i])]),
         codes |-> d]
    ELSE IF starts_with(d, BOM) THEN
        LET r == Utf16Chars(Units(SubSeq(d, 3, Len(d))))
        IN [ok |-> r.ok, out |-> o \o r.s, codes |-> <<>>]
    ELSE
        LET r == Utf8Decode(d)
        IN [ok |-> r.ok, out |-> IF r.ok THEN o \o r.s ELSE o, codes |-> <<>>]

(***************************************************************************)
(* Fonts of a page and FontCache                                           *)
(***************************************************************************)
\* pdf_encoding's base tables, restricted to the bytes the model draws
AsciiTable == [b \in 32..126 |-> <<b>>]
SymbolTable == (97 :> <<945>>) @@ (98 :> <<946>>)

BaseTable(base) ==
    IF base = "SymbolEncoding" THEN SymbolTable
    ELSE IF base \in {"StandardEncoding", "WinAnsiEncoding", "MacRomanEncoding"} THEN AsciiTable
    ELSE NoMap

\* a pdf::font::Font as add_font reads it: name, to_unicode(), encoding()
Font(name, has_to_unicode, cmap, has_encoding, base, differences) ==
    [name |-> name, has_to_unicode |-> has_to_unicode, to_unicode |-> cmap,
     has_encoding |-> has_encoding, base |-> base, differences |-> differences]

\* ToUnicode map used by the model's CMap fonts: 1-byte and 2-byte codes
CMapA ==
    (65 :> <<65>>) @@ (97 :> <<97>>) @@ (16 :> <<8226>>) @@ (40 :> <<40>>)
    @@ (16640 :> <<20013>>) @@ (16705 :> <<25991>>) @@ (65281 :> <<33>>)

\* add_font that also skips an encoding whose base is None
RegistersUnlessNoBase(font) ==
    \/ font.has_to_unicode
    \/ /\ font.has_encoding
       /\ font.base \in {"StandardEncoding", "SymbolEncoding", "WinAnsiEncoding",
                         "MacRomanEncoding"}

\* whether add_font inserts an entry for the font (it returns early otherwise)
Registers(font) ==
    \/ font.has_to_unicode
    \/ /\ font.has_encoding
       /\ font.base \in {"StandardEncoding", "SymbolEncoding", "WinAnsiEncoding",
                         "MacRomanEncoding", "None"}

\* the decoder add_font builds for a font it registers
BuildDecoder(font) ==
    IF font.has_to_unicode THEN DecoderCmap(font.to_unicode)
    ELSE DecoderMap(BaseTable(font.base), font.differences)

\* FontCache::add_font: the cache's map after the call
add_font(cache, name, font) ==
    IF Registers(font)
    THEN (name :> [name |-> font.name, decoder |-> BuildDecoder(font)])
         @@ [k \in (DOMAIN cache) \ {name} |-> cache[k]]
    ELSE cache

\* FontCache::populate: resources.fonts first, then the graphics states' fonts
RECURSIVE AddResourceFonts(_, _)
AddResourceFonts(cache, entries) ==
    IF entries = <<>> THEN cache
    ELSE AddResourceFonts(add_font(cache, entries[1].name, entries[1].font), Tail(entries))

RECURSIVE AddGraphicsStateFonts(_, _)
AddGraphicsStateFonts(cache, gss) ==
    IF gss = <<>> THEN cache
    ELSE LET gs == gss[1]
         IN AddGraphicsStateFonts(
                IF gs.has_font THEN add_font(cache, gs.font.name, gs.font) ELSE cache,
                Tail(gss))

populate(p) == AddGraphicsStateFonts(AddResourceFonts(<<>>, p.fonts), p.graphics_states)

get_by_font_name(cache, name) ==
    IF name \in DOMAIN cache THEN cache[name] ELSE DefaultFontInfo

\* FontCache::get_by_graphic_state_name: [some, font, size]
get_by_graphic_state_name(p, cache, name) ==
    LET hit == {i \in 1..Len(p.graphics_states) :
                    p.graphics_states[i].name = name /\ p.graphics_states[i].has_font}
    IN IF hit = {} THEN [some |-> FALSE, font |-> DefaultFontInfo, size |-> 0]
       ELSE LET gs == p.graphics_states[CHOOSE i \in hit : TRUE]
            IN [some |-> TRUE, font |-> get_by_font_name(cache, gs.font.name),
                size |-> gs.size]

(***************************************************************************)
(* TextState and the transitions of ops_with_text_state                    *)
(***************************************************************************)
Matrix(a, b, c, d, e, f) == [m11 |-> a, m12 |-> b, m21 |-> c, m22 |-> d, m31 |-> e, m32 |-> f]

Identity == Matrix(1, 0, 0, 1, 0, 0)

DefaultTextState ==
    [font |-> DefaultFontInfo, font_size |-> 0, text_leading |-> 0,
     matrix |-> Identity, text_matrix |-> Identity]

\* Transform2D::pre_translate: the translation applies before the matrix
pre_translate(m, tx, ty) ==
    [m EXCEPT !.m31 = tx * m.m11 + ty * m.m21 + m.m31,
              !.m32 = tx * m.m12 + ty * m.m22 + m.m32]

text_offset(ts) ==
    [x |-> ts.matrix.m31 + ts.text_matrix.m31, y |-> ts.matrix.m32 + ts.text_matrix.m32]

\* BeginText without `state.matrix = old_matrix`
OnBeginTextResetAll(ts) == DefaultTextState

\* lines 232-238
OnBeginText(ts) == [DefaultTextState EXCEPT !.matrix = ts.matrix]

OnGraphicsState(ts, p, cache, name) ==
    LET r == get_by_graphic_state_name(p, cache, name)
    IN IF r.some THEN [ts EXCEPT !.font = r.font, !.font_size = r.size] ELSE ts

OnTextFont(ts, cache, name, size) ==
    [ts EXCEPT !.font = get_by_font_name(cache, name), !.font_size = size]

OnLeading(ts, leading) == [ts EXCEPT !.text_leading = leading]

OnTextNewline(ts) ==
    [ts EXCEPT !.text_matrix = pre_translate(ts.text_matrix, 0, ts.text_leading)]

OnMoveTextPosition(ts, tx, ty) ==
    [ts EXCEPT !.text_matrix = pre_translate(ts.text_matrix, tx, ty)]

OnTransform(ts, m) == [ts EXCEPT !.matrix = m]

OnSetTextMatrix(ts, m) == [ts EXCEPT !.text_matrix = m]

(***************************************************************************)
(* page_text                                                               *)
(***************************************************************************)
x_inline_threshold == 50
x_threshold == 2
y_threshold == 2

\* the separator logic without the vertical test
SeparatorWithoutLineBreak(o, prev, word, off, xf, yf) ==
    IF /\ Abs(prev.x - off.x) > xf * Fx(x_threshold)
       /\ o # <<>>
       /\ ~ends_with(o, SPACE)
       /\ is_ascii(o[Len(o)])
       /\ is_ascii_alphanumeric(word[1])
    THEN <<SPACE>>
    ELSE <<>>

\* the separator logic with the `!` of !out.ends_with(' ') lost
SeparatorMissingNot(o, prev, word, off, xf, yf) ==
    IF /\ Abs(prev.y - off.y) > yf * Fx(y_threshold)
       /\ o # <<>>
       /\ ~ends_with(o, NEWLINE)
    THEN <<NEWLINE>>
    ELSE IF /\ Abs(prev.x - off.x) > xf * Fx(x_threshold)
            /\ o # <<>>
            /\ ends_with(o, SPACE)
            /\ is_ascii(o[Len(o)])
            /\ is_ascii_alphanumeric(word[1])
    THEN <<SPACE>>
    ELSE <<>>

\* the separator logic without the test of the word's first character
SeparatorAnyFirstChar(o, prev, word, off, xf, yf) ==
    IF /\ Abs(prev.y - off.y) > yf * Fx(y_threshold)
       /\ o # <<>>
       /\ ~ends_with(o, NEWLINE)
    THEN <<NEWLINE>>
    ELSE IF /\ Abs(prev.x - off.x) > xf * Fx(x_threshold)
            /\ o # <<>>
            /\ ~ends_with(o, SPACE)
            /\ is_ascii(o[Len(o)])
    THEN <<SPACE>>
    ELSE <<>>

\* the separator page_text pushes before a non-empty word (lines 329-346)
Separator(o, prev, word, off, xf, yf) ==
    IF /\ Abs(prev.y - off.y) > yf * Fx(y_threshold)
       /\ o # <<>>
       /\ ~ends_with(o, NEWLINE)
    THEN <<NEWLINE>>
    ELSE IF /\ Abs(prev.x - off.x) > xf * Fx(x_threshold)
            /\ o # <<>>
            /\ ~ends_with(o, SPACE)
            /\ is_ascii(o[Len(o)])
            /\ is_ascii_alphanumeric(word[1])
    THEN <<SPACE>>
    ELSE <<>>

\* lines 328-357: [out, prev_offset, sep] after a word drawn at offset off
Join(o, prev, word, off, xf, yf) ==
    IF word = <<>> THEN [out |-> o, prev_offset |-> prev, sep |-> <<>>]
    ELSE LET sep == Separator(o, prev, word, off, xf, yf)
         IN [out |-> o \o sep \o word, prev_offset |-> off, sep |-> sep]

\* an element of a TextDrawAdjusted array
AdjText(d) == [is_text |-> TRUE, data |-> d, s |-> 0]
AdjSpacing(s) == [is_text |-> FALSE, data |-> <<>>, s |-> s]

\* lines 311-324: [ok, word, dup]; dup: a spacing pushed a space onto a word that
\* already ended with one
RECURSIVE AdjustedWord(_, _, _, _, _)
AdjustedWord(font, array, xf, word, dup) ==
    IF array = <<>> THEN [ok |-> TRUE, word |-> word, dup |-> dup]
    ELSE LET e == array[1]
         IN IF e.is_text
            THEN LET r == decode(font, e.data, word)
                 IN IF r.ok THEN AdjustedWord(font, Tail(array), xf, r.out, dup)
                    ELSE [ok |-> FALSE, word |-> r.out, dup |-> dup]
            ELSE IF Abs(e.s) > x_inline_threshold * xf
                 THEN AdjustedWord(font, Tail(array), xf, word \o <<SPACE>>,
                                   dup \/ ends_with(word, SPACE))
                 ELSE AdjustedWord(font, Tail(array), xf, word, dup)

(***************************************************************************)
(* Inputs of the model                                                     *)
(***************************************************************************)
MaxData == 4
MaxOps == 3
MaxContents == 2
MaxItems == 3

RECURSIVE SeqsUpTo(_, _)
SeqsUpTo(S, n) ==
    IF n = 0 THEN {<<>>}
    ELSE LET shorter == SeqsUpTo(S, n - 1)
         IN shorter \cup {Append(s, x) : s \in {t \in shorter : Len(t) = n - 1}, x \in S}

\* bytes that make up soft hyphens, ASCII, UTF-8 sequences, surrogates and invalid UTF-8
DecodeBytes == {0, 16, 40, 65, 169, 216, 220, 255}

\* byte strings handed to decode: with or without the byte-order mark
DecodeData == {prefix \o body : prefix \in {<<>>, BOM}, body \in SeqsUpTo(DecodeBytes, MaxData)}

FontF1 == <<70, 49>>
FontGBK == <<83, 71, 66, 75>>
FontWin == <<87, 105, 110>>
FontDiff == <<68, 105, 102, 102>>
FontExp == <<69, 120, 112>>
FontRaw == <<82, 97, 119>>

\* code 65 is overridden to "B", code 16 to a bullet
Differences == (65 :> <<66>>) @@ (16 :> <<8226>>)

CMapFont == Font(FontF1, TRUE, CMapA, FALSE, "None", NoMap)
GBKFont == Font(FontGBK, TRUE, CMapA, TRUE, "WinAnsiEncoding", NoMap)
WinAnsiFont == Font(FontWin, FALSE, NoMap, TRUE, "WinAnsiEncoding", Differences)
NoBaseFont == Font(FontDiff, FALSE, NoMap, TRUE, "None", Differences)
ExpertFont == Font(FontExp, FALSE, NoMap, TRUE, "MacExpertEncoding", Differences)
RawFont == Font(FontRaw, FALSE, NoMap, FALSE, "None", NoMap)

\* the FontInfo values decode is called on
DecodeFonts ==
    {[name |-> FontF1, decoder |-> DecoderCmap(CMapA)],
     [name |-> FontGBK, decoder |-> DecoderCmap(CMapA)],
     [name |-> FontWin, decoder |-> DecoderMap(AsciiTable, Differences)],
     DefaultFontInfo}

NoResult == [ok |-> FALSE, out |-> <<>>, codes |-> <<>>, before |-> <<>>, called |-> FALSE]

NoPage == [fonts |-> <<>>, graphics_states |-> <<>>]
NoStep == [op |-> "none", word |-> <<>>, sep |-> <<>>, before |-> <<>>, dup |-> FALSE,
           font |-> DefaultFontInfo, drawn |-> <<>>, array |-> <<>>,
           ts |-> DefaultTextState]
NoReturn == [kind |-> "none", text |-> <<>>]
Origin == [x |-> 0, y |-> 0]

DecodeIdle == dfont = DefaultFontInfo /\ data = <<>> /\ dout = NoResult

PageIdle ==
    /\ page = NoPage /\ pc = "idle" /\ fonts = <<>> /\ state = DefaultTextState
    /\ ret = NoReturn /\ nops = 0 /\ ncont = 0

JoinInit == out = <<>> /\ prev_offset = Origin /\ step = NoStep

BatchIdle ==
    /\ frags = <<>> /\ items = <<>> /\ bpc = "idle" /\ bi = 0 /\ res = <<>> /\ prev_x = 0 /\ prev_y = 0
    /\ bstep = NoStep /\ si = 0

TrackIdle == heap = <<>> /\ sptr = 0 /\ emitted = <<>>

NoPrimitive == [kind |-> "none", val |-> 0]
NoAccess == [kind |-> "none", value |-> NoPrimitive, err |-> "", expected |-> "",
             found |-> NoPrimitive]

ObjectIdle ==
    /\ objects = <<>> /\ receiver = NoPrimitive /\ accessor = "" /\ cur = NoPrimitive
    /\ derefs = 0 /\ visited = {} /\ result = NoAccess

NotPrinted == [written |-> FALSE, text |-> <<>>]

MainIdle ==
    /\ doc = <<>> /\ arg_page = 0 /\ mpc = "idle" /\ page_nr = 0 /\ traced = <<>>
    /\ printed = NotPrinted

(***************************************************************************)
(* SpecDecode: FontInfo::decode applied to one byte string                 *)
(***************************************************************************)
\* utf16be_to_char reads whole 2-byte units: a mark followed by an odd number of
\* bytes is not handed to the raw decoder
DecodeInit ==
    /\ dfont \in DecodeFonts
    /\ data \in DecodeData
    /\ (dfont.decoder.kind = "None" /\ starts_with(data, BOM)) => Len(data) % 2 = 0
    /\ dout = NoResult
    /\ PageIdle /\ JoinInit /\ BatchIdle /\ TrackIdle /\ ObjectIdle /\ MainIdle

Decode ==
    /\ ~dout.called
    /\ \E o \in {<<>>, <<120>>} :
          LET r == decode(dfont, data, o)
          IN dout' = [ok |-> r.ok, out |-> r.out, codes |-> r.codes, before |-> o,
                      called |-> TRUE]
    /\ UNCHANGED <<dfont, data, pageVars, joinVars, batchVars,
                 trackVars, objectVars, mainVars>>

DecodeNext == Decode

SpecDecode == DecodeInit /\ [][DecodeNext]_vars

(***************************************************************************)
(* Claims about FontInfo::decode (SpecDecode)                              *)
(***************************************************************************)
\* C9: a Cmap decode of a byte string that starts with the byte-order mark, or is
\* drawn with a GBK font, reads 2n bytes as n codes, the i-th being the
\* big-endian value of bytes 2i-1 and 2i (1-based); no code straddles two pairs.
\* (The soft-hyphen pair 10 28 is the decoder's stated exception and is left out.)
C9_PairsWithoutOverlap ==
    (/\ dout.called
     /\ dfont.decoder.kind = "Cmap"
     /\ data # SoftHyphen
     /\ Len(data) % 2 = 0
     /\ (starts_with(data, BOM) \/ contains(dfont.name, GBK)))
    => /\ Len(dout.codes) = Len(data) \div 2
       /\ \A i \in 1..Len(dout.codes) :
             dout.codes[i] = data[2 * i - 1] * 256 + data[2 * i]

\* a surrogate code unit that is not half of a high/low pair
Unpaired(us, i) ==
    \/ /\ IsLowSurrogate(us[i])
       /\ (i = 1 \/ ~(IsSurrogate(us[i - 1]) /\ ~IsLowSurrogate(us[i - 1])))
    \/ /\ IsSurrogate(us[i]) /\ ~IsLowSurrogate(us[i])
       /\ (i = Len(us) \/ ~IsLowSurrogate(us[i + 1]))

\* UTF-16 code units of a text
RECURSIVE Utf16Encode(_)
Utf16Encode(t) ==
    IF t = <<>> THEN <<>>
    ELSE (IF t[1] < 65536 THEN <<t[1]>>
          ELSE <<55296 + ((t[1] - 65536) \div 1024), 56320 + ((t[1] - 65536) % 1024)>>)
         \o Utf16Encode(Tail(t))

\* UTF-8 bytes of a text of characters below U+0800
RECURSIVE Utf8Encode(_)
Utf8Encode(t) ==
    IF t = <<>> THEN <<>>
    ELSE (IF t[1] < 128 THEN <<t[1]>>
          ELSE <<192 + (t[1] \div 64), 128 + (t[1] % 64)>>)
         \o Utf8Encode(Tail(t))

\* validity of a byte string made of ASCII, 2-byte sequences and bytes that no
\* UTF-8 text holds
ValidShortUtf8(d) ==
    \A i \in 1..Len(d) :
        \/ d[i] < 128
        \/ d[i] \in 194..223 /\ i < Len(d) /\ IsCont(d[i + 1])
        \/ IsCont(d[i]) /\ i > 1 /\ d[i - 1] \in 194..223

\* the text a decode call appended to its buffer
Appended == SubSeq(dout.out, Len(dout.before) + 1, Len(dout.out))

\* C10: the raw decoder (Decoder::None) decodes FE FF 00 41 to "A"; after the mark
\* it decodes UTF-16BE and fails when a code unit is an unpaired surrogate; without
\* the mark it returns the bytes as UTF-8 text and fails when they are not UTF-8.
C10_RawDecode ==
    (dout.called /\ dfont.decoder.kind = "None") =>
        /\ starts_with(dout.out, dout.before)
        /\ data = <<254, 255, 0, 65>> => (dout.ok /\ Appended = <<65>>)
        /\ starts_with(data, BOM) =>
              LET us == Units(SubSeq(data, 3, Len(data)))
              IN /\ dout.ok <=> ~(\E i \in 1..Len(us) : Unpaired(us, i))
                 /\ dout.ok => Utf16Encode(Appended) = us
        /\ ~starts_with(data, BOM) =>
              /\ dout.ok <=> ValidShortUtf8(data)
              /\ dout.ok => Utf8Encode(Appended) = data
              /\ ~dout.ok => Appended = <<>>

\* an unpaired low surrogate after the mark makes the decode fail
C10_Witness ==
    /\ dout.called
    /\ dfont.decoder.kind = "None"
    /\ data = <<254, 255, 0, 65, 220, 0>>
    /\ ~dout.ok

(***************************************************************************)
(* Spec: page_text walking the operators of one page                       *)
(***************************************************************************)
ResCMap == <<82, 49>>
ResNoBase == <<82, 50>>
ResExpert == <<82, 51>>
ResRaw == <<82, 52>>
ResUnknown == <<82, 57>>

FontEntry(name, font) == [name |-> name, font |-> font]
GsEntry(name, has_font, font, size) ==
    [name |-> name, has_font |-> has_font, font |-> font, size |-> size]

Pages ==
    {[fonts |-> <<FontEntry(ResCMap, CMapFont), FontEntry(ResNoBase, NoBaseFont),
                  FontEntry(ResExpert, ExpertFont), FontEntry(ResRaw, RawFont)>>,
      graphics_states |-> <<GsEntry("GS1", TRUE, WinAnsiFont, 12),
                            GsEntry("GS2", FALSE, RawFont, 0)>>],
     [fonts |-> <<FontEntry(ResCMap, GBKFont), FontEntry(ResRaw, RawFont)>>,
      graphics_states |-> <<GsEntry("GS1", TRUE, ExpertFont, 9)>>]}

FontNames == {ResCMap, ResNoBase, ResExpert, ResRaw, ResUnknown}
GsNames == {"GS1", "GS2", "GS9"}
Leadings == {Fx(-12)}
Moves == {<<Fx(60), 0>>, <<0, Fx(-50)>>, <<Fx(-30), Fx(1)>>}
Transforms == {Matrix(2, 0, 0, 2, Fx(10), Fx(100))}
TextMatrices == {Matrix(1, 0, 0, 1, 0, Fx(100)), Matrix(2, 0, 0, 1, Fx(5), 0)}

\* "a", "a ", ",", "a\n", an invalid UTF-8 byte, BOM + "A"
DrawData == {<<97>>, <<97, 32>>, <<44>>, <<97, 10>>, <<255>>, <<254, 255, 0, 65>>}

DrawArrays ==
    {<<AdjText(<<97>>), AdjSpacing(60), AdjText(<<97>>)>>,
     <<AdjText(<<97, 32>>), AdjSpacing(-60), AdjText(<<44>>)>>,
     <<AdjText(<<97>>), AdjSpacing(60), AdjSpacing(-120)>>,
     <<AdjText(<<97>>), AdjSpacing(50), AdjText(<<97>>)>>,
     <<AdjText(<<97>>), AdjSpacing(101), AdjText(<<255>>)>>}

Init ==
    /\ page \in Pages
    /\ pc = "start"
    /\ fonts = <<>>
    /\ state = DefaultTextState
    /\ ret = NoReturn
    /\ nops = 0
    /\ ncont = 0
    /\ JoinInit /\ DecodeIdle /\ BatchIdle /\ TrackIdle /\ ObjectIdle /\ MainIdle

\* the scan of the next content stream starts: a fresh TextState and FontCache
BeginContents ==
    /\ pc \in {"start", "ops"}
    /\ ncont < MaxContents
    /\ pc' = "ops"
    /\ ncont' = ncont + 1
    /\ state' = DefaultTextState
    /\ fonts' = populate(page)
    /\ UNCHANGED <<page, ret, nops, joinVars, decodeVars, batchVars,
                 trackVars, objectVars, mainVars>>

\* an operator that draws nothing: the scan's transition, and an empty word
StateOp(name, ts) ==
    /\ pc = "ops"
    /\ nops < MaxOps
    /\ state' = ts
    /\ nops' = nops + 1
    /\ step' = [NoStep EXCEPT !.op = name, !.before = out, !.font = ts.font, !.ts = ts]
    /\ UNCHANGED <<page, pc, fonts, ret, ncont, out, prev_offset, decodeVars, batchVars,
                 trackVars, objectVars, mainVars>>

BeginText == StateOp("BeginText", OnBeginText(state))

GraphicsState == \E name \in GsNames :
    StateOp("GraphicsState", OnGraphicsState(state, page, fonts, name))

TextFont == \E name \in FontNames :
    StateOp("TextFont", OnTextFont(state, fonts, name, 12))

Leading == \E l \in Leadings : StateOp("Leading", OnLeading(state, l))

TextNewline == StateOp("TextNewline", OnTextNewline(state))

MoveTextPosition == \E t \in Moves :
    StateOp("MoveTextPosition", OnMoveTextPosition(state, t[1], t[2]))

Transform == \E m \in Transforms : StateOp("Transform", OnTransform(state, m))

SetTextMatrix == \E m \in TextMatrices : StateOp("SetTextMatrix", OnSetTextMatrix(state, m))

\* any other operator
OtherOp == StateOp("Other", state)

\* a drawing operator that drops a fragment it cannot decode and goes on
DrawOpSkippingFragment(name, w, d, array) ==
    /\ pc = "ops"
    /\ nops < MaxOps
    /\ nops' = nops + 1
    /\ LET word == IF w.ok THEN w.word ELSE <<>>
           j == Join(out, prev_offset, word, text_offset(state),
                     Abs(state.text_matrix.m11), Abs(state.text_matrix.m22))
       IN /\ out' = j.out
          /\ prev_offset' = j.prev_offset
          /\ step' = [op |-> name, word |-> word, sep |-> j.sep, before |-> out,
                      dup |-> w.dup, font |-> state.font, drawn |-> d, array |-> array,
                 ts |-> state]
    /\ UNCHANGED <<page, pc, ret, fonts, state, ncont, decodeVars, batchVars,
                   trackVars, objectVars, mainVars>>

\* a drawing operator whose word is w = [ok, word, dup]: the `?` return on a decode
\* error, or lines 328-357
DrawOp(name, w, d, array) ==
    /\ pc = "ops"
    /\ nops < MaxOps
    /\ nops' = nops + 1
    /\ LET j == Join(out, prev_offset, w.word, text_offset(state),
                     Abs(state.text_matrix.m11), Abs(state.text_matrix.m22))
           s == [op |-> name, word |-> w.word, sep |-> <<>>, before |-> out,
                 dup |-> w.dup, font |-> state.font, drawn |-> d, array |-> array,
                 ts |-> state]
       IN IF w.ok
          THEN /\ out' = j.out
               /\ prev_offset' = j.prev_offset
               /\ step' = [s EXCEPT !.sep = j.sep]
               /\ UNCHANGED <<pc, ret>>
          ELSE /\ pc' = "done"
               /\ ret' = [kind |-> "Err", text |-> <<>>]
               /\ step' = s
               /\ UNCHANGED <<out, prev_offset>>
    /\ UNCHANGED <<page, fonts, state, ncont, decodeVars, batchVars,
                 trackVars, objectVars, mainVars>>

TextDraw == \E d \in DrawData :
    LET r == decode(state.font, d, <<>>)
    IN DrawOp("TextDraw", [ok |-> r.ok, word |-> r.out, dup |-> FALSE], d, <<>>)

TextDrawAdjusted == \E array \in DrawArrays :
    DrawOp("TextDrawAdjusted",
           AdjustedWord(state.font, array, Abs(state.text_matrix.m11), <<>>, FALSE),
           <<>>, array)

\* the operators are exhausted: page_text returns Ok(out)
Finish ==
    /\ pc \in {"start", "ops"}
    /\ pc' = "done"
    /\ ret' = [kind |-> "Ok", text |-> out]
    /\ UNCHANGED <<page, fonts, state, nops, ncont, joinVars, decodeVars, batchVars,
                 trackVars, objectVars, mainVars>>

Next ==
    \/ BeginContents
    \/ BeginText
    \/ GraphicsState
    \/ TextFont
    \/ Leading
    \/ TextNewline
    \/ MoveTextPosition
    \/ Transform
    \/ SetTextMatrix
    \/ OtherOp
    \/ TextDraw
    \/ TextDrawAdjusted
    \/ Finish

Spec == Init /\ [][Next]_vars

(***************************************************************************)
(* Claims about page_text and the font cache (Spec)                        *)
(***************************************************************************)
\* C6: the word decoded for a TextDrawAdjusted never gains a duplicate space from
\* a spacing value: no space is pushed when the word already ends with a space.
C6_NoDuplicateSpace ==
    (step.op = "TextDrawAdjusted" /\ ret.kind # "Err") => ~step.dup

\* fonts of the page with an encoding whose base is None and no ToUnicode map
NoBaseEntries(p) ==
    {i \in 1..Len(p.fonts) :
        /\ ~p.fonts[i].font.has_to_unicode
        /\ p.fonts[i].font.has_encoding
        /\ p.fonts[i].font.base = "None"}

\* fonts of the page for which add_font builds no decoder
SkippedEntries(p) ==
    {i \in 1..Len(p.fonts) :
        /\ ~p.fonts[i].font.has_to_unicode
        /\ \/ ~p.fonts[i].font.has_encoding
           \/ p.fonts[i].font.base \in {"MacExpertEncoding", "IdentityH", "Other"}}

RECURSIVE DifferencesOnly(_, _)
DifferencesOnly(d, differences) ==
    IF d = <<>> THEN <<>>
    ELSE (IF d[1] \in DOMAIN differences THEN differences[d[1]] ELSE <<>>)
         \o DifferencesOnly(Tail(d), differences)

Undecodable(n) ==
    \/ \A i \in 1..Len(page.fonts) : page.fonts[i].name # n
    \/ \E i \in SkippedEntries(page) : page.fonts[i].name = n

factor == 5

\* norm_pos: (x * factor) as i32, x in tenths
norm_pos(x) == TruncDiv(x * factor, 10)

TextSpan(text, x0, y0, x1, y1) == [text |-> text, rect |-> <<x0, y0, x1, y1>>]

\* the key of sort_by_key: (rect[1] as i32, norm_pos(rect[0]))
SortKey(item) == <<TruncDiv(item.rect[2], 10), norm_pos(item.rect[1])>>

KeyLessEq(a, b) == a[1] < b[1] \/ (a[1] = b[1] /\ a[2] <= b[2])

\* stable insertion of x into a sorted list: after every element whose key is not greater
RECURSIVE InsertByKey(_, _)
InsertByKey(x, sorted) ==
    IF sorted = <<>> THEN <<x>>
    ELSE IF KeyLessEq(SortKey(sorted[1]), SortKey(x))
         THEN <<sorted[1]>> \o InsertByKey(x, Tail(sorted))
         ELSE <<x>> \o sorted

\* Vec::sort_by_key: a stable sort by ascending key
RECURSIVE SortByKey(_)
SortByKey(list) ==
    IF list = <<>> THEN <<>>
    ELSE InsertByKey(list[Len(list)], SortByKey(SubSeq(list, 1, Len(list) - 1)))

\* (norm_pos(item.x0) - norm_pos(prev_x)), the numerator of x_diff
XDiff(item, px) == norm_pos(item.rect[1]) - norm_pos(px)

\* the separator one iteration of the loop appends (lines 35-46); x_diff < -10 and
\* x_diff > 0.1 are compared on the numerator
BatchSeparator(r, item, px, py) ==
    LET d == XDiff(item, px)
        afterBreak ==
            IF r # <<>> /\ (d < -10 * factor \/ norm_pos(item.rect[2]) >= norm_pos(py))
            THEN r \o <<NEWLINE>> ELSE r
        afterSpace ==
            IF afterBreak # <<>> /\ ~ends_with(afterBreak, NEWLINE) /\ 10 * d > factor
            THEN afterBreak \o <<SPACE>> ELSE afterBreak
    IN SubSeq(afterSpace, Len(r) + 1, Len(afterSpace))

\* the loop body with the tab of line 49 left in
BatchAppendWithTab(r, item, px, py) ==
    r \o BatchSeparator(r, item, px, py) \o item.text \o <<9>>

\* res after one iteration of the loop (lines 35-48)
BatchAppend(r, item, px, py) == r \o BatchSeparator(r, item, px, py) \o item.text

(***************************************************************************)
(* SpecLayout: one list of text spans, reconstructed by items2text and by  *)
(* page_text's separator logic                                             *)
(***************************************************************************)
Hello == <<72, 101, 108, 108, 111>>
World == <<87, 111, 114, 108, 100>>

Spans ==
    {TextSpan(Hello, Fx(0), Fx(100), Fx(50), Fx(110)),
     TextSpan(World, Fx(60), Fx(100), Fx(110), Fx(110)),
     TextSpan(World, Fx(0), Fx(50), Fx(50), Fx(60)),
     TextSpan(World, Fx(0), Fx(120), Fx(50), Fx(130)),
     TextSpan(<<>>, Fx(0), Fx(105), Fx(0), Fx(108)),
     TextSpan(<<44>>, Fx(50), Fx(100), Fx(55), Fx(110)),
     TextSpan(<<44, 120>>, Fx(60), Fx(100), Fx(70), Fx(110)),
     TextSpan(<<97, 10>>, Fx(0), Fx(100), Fx(50), Fx(110)),
     TextSpan(<<98, 32>>, Fx(0), Fx(100), Fx(50), Fx(110)),
     TextSpan(<<20013>>, Fx(60), Fx(100), Fx(110), Fx(110)),
     TextSpan(<<120>>, 501, 1001, 551, 1101),
     TextSpan(<<121>>, Fx(52), Fx(100), Fx(60), Fx(100))}

LayoutInit ==
    /\ frags \in SeqsUpTo(Spans, MaxItems)
    /\ items = frags
    /\ bpc = "sort"
    /\ bi = 0
    /\ res = <<>>
    /\ prev_x = 0
    /\ prev_y = 0
    /\ bstep = NoStep
    /\ si = 0
    /\ JoinInit /\ PageIdle /\ DecodeIdle /\ TrackIdle /\ ObjectIdle /\ MainIdle

\* items.sort_by_key(..) and the early return on an empty list
BatchSort ==
    /\ bpc = "sort"
    /\ items' = SortByKey(items)
    /\ bpc' = IF items = <<>> THEN "done" ELSE "loop"
    /\ UNCHANGED <<frags, bi, res, prev_x, prev_y, bstep, si, joinVars, pageVars, decodeVars,
                 trackVars, objectVars, mainVars>>

\* one iteration of the loop over the sorted items
BatchItem ==
    /\ bpc = "loop"
    /\ LET item == items[bi + 1]
           sep == BatchSeparator(res, item, prev_x, prev_y)
       IN /\ res' = BatchAppend(res, item, prev_x, prev_y)
          /\ prev_x' = item.rect[3]
          /\ prev_y' = item.rect[4]
          /\ bstep' = [NoStep EXCEPT !.op = "item", !.word = item.text, !.sep = sep,
                                     !.before = res]
    /\ bi' = bi + 1
    /\ bpc' = IF bi + 1 = Len(items) THEN "done" ELSE "loop"
    /\ UNCHANGED <<frags, items, si, joinVars, pageVars, decodeVars,
                 trackVars, objectVars, mainVars>>

\* page_text's lines 328-357 for the next span as drawn: its word is the span's text,
\* its text offset the rectangle's origin, its text matrix of scale 1
StreamItem ==
    /\ bpc # "idle"
    /\ si < Len(frags)
    /\ LET f == frags[si + 1]
           j == Join(out, prev_offset, f.text, [x |-> f.rect[1], y |-> f.rect[2]], 1, 1)
       IN /\ out' = j.out
          /\ prev_offset' = j.prev_offset
          /\ step' = [NoStep EXCEPT !.op = "fragment", !.word = f.text, !.sep = j.sep,
                                    !.before = out]
    /\ si' = si + 1
    /\ UNCHANGED <<frags, items, bpc, bi, res, prev_x, prev_y, bstep, pageVars, decodeVars,
                 trackVars, objectVars, mainVars>>

LayoutNext == BatchSort \/ BatchItem \/ StreamItem

SpecLayout == LayoutInit /\ [][LayoutNext]_vars

(***************************************************************************)
(* Claims about the layout reconstruction (SpecLayout)                     *)
(***************************************************************************)
StreamDone == bpc # "idle" /\ si = Len(frags)
BatchDone == bpc = "done"

\* C1: when either mode inserts a separator, the output built so far does not end
\* with a line break: no line break and no space directly follows a line break.
C1_NoSeparatorAfterLineBreak ==
    /\ (step.op = "fragment" /\ step.sep # <<>>) => ~ends_with(step.before, NEWLINE)
    /\ (bstep.op = "item" /\ bstep.sep # <<>>) => ~ends_with(bstep.before, NEWLINE)

\* the list is already in the order items2text sorts it into
InSortOrder(list) == SortByKey(list) = list

\* C2 as claimed: on a list that is already in batch sort order, items2text and the
\* streaming separator logic return the same string.
C2_ModesAgree ==
    (InSortOrder(frags) /\ StreamDone /\ BatchDone) => out = res

\* a string without its spaces and line breaks
RECURSIVE Unspaced(_)
Unspaced(t) ==
    IF t = <<>> THEN <<>>
    ELSE (IF t[1] \in {SPACE, NEWLINE} THEN <<>> ELSE <<t[1]>>) \o Unspaced(Tail(t))

RECURSIVE Texts(_)
Texts(list) == IF list = <<>> THEN <<>> ELSE list[1].text \o Texts(Tail(list))

\* C2 amended: the two modes apply different adjacency policies.  On a list already
\* in batch sort order both return the fragments' texts in that order and differ at
\* most in separators: the results are equal once spaces and line breaks are
\* removed, and equal as they are for a single fragment.
C2_ModesAgreeUpToSeparators ==
    (InSortOrder(frags) /\ StreamDone /\ BatchDone) =>
        /\ Unspaced(out) = Unspaced(Texts(frags))
        /\ Unspaced(res) = Unspaced(Texts(frags))
        /\ Len(frags) = 1 => out = res

\* "Hello," then "x...": the modes disagree on the separator only
C2_Witness ==
    /\ InSortOrder(frags) /\ StreamDone /\ BatchDone
    /\ Len(frags) = 2
    /\ out # res
    /\ Unspaced(out) = Unspaced(res)
    /\ Unspaced(out) # <<>>

HelloSpan == TextSpan(Hello, Fx(0), Fx(100), Fx(50), Fx(110))
WorldRight == TextSpan(World, Fx(60), Fx(100), Fx(110), Fx(110))
WorldBelow == TextSpan(World, Fx(0), Fx(50), Fx(50), Fx(60))

\* C3 as claimed: "Hello" at (0,100,50,110) then "World" at (0,50,50,60) gives
\* "Hello\nWorld" in either mode.
C3_HelloNewlineWorld ==
    frags = <<HelloSpan, WorldBelow>> =>
        /\ StreamDone => out = Hello \o <<NEWLINE>> \o World
        /\ BatchDone => res = Hello \o <<NEWLINE>> \o World

\* C3 amended: streaming mode gives "Hello\nWorld", in the order drawn; batch mode
\* sorts by ascending vertical coordinate first and gives "World\nHello".  Either
\* way there is exactly one line break and no space.
C3_LineBreakPerMode ==
    frags = <<HelloSpan, WorldBelow>> =>
        /\ StreamDone => out = Hello \o <<NEWLINE>> \o World
        /\ BatchDone => res = World \o <<NEWLINE>> \o Hello

C3_Witness ==
    /\ frags = <<HelloSpan, WorldBelow>>
    /\ StreamDone /\ BatchDone
    /\ out = Hello \o <<NEWLINE>> \o World
    /\ res = World \o <<NEWLINE>> \o Hello

\* two spans with the same vertical extent, of a height the quantization keeps
SameLine(a, b) ==
    /\ a.rect[2] = b.rect[2]
    /\ a.rect[4] = b.rect[4]
    /\ norm_pos(a.rect[2]) < norm_pos(a.rect[4])

\* the last character of a and the first of b are ASCII alphanumeric
AlnumJoin(a, b) ==
    /\ a.text # <<>> /\ b.text # <<>>
    /\ is_ascii_alphanumeric(a.text[Len(a.text)])
    /\ is_ascii_alphanumeric(b.text[1])

C5_SpaceOnlyBetweenAlphanumerics ==
    /\ (step.op = "fragment" /\ step.sep = <<SPACE>>) =>
          /\ ~ends_with(step.before, SPACE)
          /\ is_ascii_alphanumeric(step.before[Len(step.before)])
          /\ is_ascii_alphanumeric(step.word[1])
    /\ (bstep.op = "item" /\ bstep.sep = <<SPACE>>) =>
          /\ ~ends_with(bstep.before, SPACE)
          /\ bstep.word # <<>>
          /\ is_ascii_alphanumeric(bstep.before[Len(bstep.before)])
          /\ is_ascii_alphanumeric(bstep.word[1])

\* C5 amended: streaming mode inserts a space only when the output is non-empty, does
\* not end with a space, its last character is ASCII (alphanumeric or not) and the
\* fragment's first character is ASCII alphanumeric.  Batch mode looks at no
\* character: it inserts a space only when the output is non-empty, does not end
\* with a line break, and the quantized gap to the predecessor's right edge is over 0.1.
C5_SpaceConditionsPerMode ==
    /\ (step.op = "fragment" /\ step.sep = <<SPACE>>) =>
          /\ step.before # <<>>
          /\ ~ends_with(step.before, SPACE)
          /\ is_ascii(step.before[Len(step.before)])
          /\ is_ascii_alphanumeric(step.word[1])
    /\ (bstep.op = "item" /\ bstep.sep = <<SPACE>>) =>
          /\ bstep.before # <<>>
          /\ ~ends_with(bstep.before, NEWLINE)
          /\ bi >= 2
          /\ 10 * XDiff(items[bi], items[bi - 1].rect[3]) > factor

\* a space inserted after a comma
C5_Witness ==
    /\ step.op = "fragment"
    /\ step.sep = <<SPACE>>
    /\ ends_with(step.before, 44)
    /\ is_ascii_alphanumeric(step.word[1])

(***************************************************************************)
(* Claims about page_text's errors and numbers (Spec)                      *)
(***************************************************************************)
\* bytes the raw strategy (Decoder::None) cannot decode: after a byte-order
\* mark an unpaired surrogate, otherwise invalid UTF-8
RawUndecodable(font, d) ==
    /\ font.decoder.kind = "None"
    /\ IF starts_with(d, BOM)
       THEN LET us == Units(SubSeq(d, 3, Len(d)))
            IN \E i \in 1..Len(us) : Unpaired(us, i)
       ELSE ~ValidShortUtf8(d)

\* the operator of the last iteration draws a fragment the raw strategy cannot
\* decode
StepFails ==
    \/ step.op = "TextDraw" /\ RawUndecodable(step.font, step.drawn)
    \/ /\ step.op = "TextDrawAdjusted"
       /\ \E i \in 1..Len(step.array) :
             step.array[i].is_text /\ RawUndecodable(step.font, step.array[i].data)

\* C15: a text-decode error in a fragment drawn with the raw strategy makes
\* page_text fail for the whole page: it returns the error and none of the text
\* accumulated so far, and the failing operator is the last one processed
C15_DecodeErrorFailsWholePage ==
    /\ StepFails <=> ret.kind = "Err"
    /\ ret.kind = "Err" => (pc = "done" /\ ret.text = <<>>)

C15_Witness == ret.kind = "Err" /\ StepFails /\ out # <<>> /\ nops < MaxOps

\* the translation of the text matrix composed with the current
\* transformation matrix (text matrix applied first)
ComposedOffset(ts) ==
    [x |-> ts.text_matrix.m31 * ts.matrix.m11 + ts.text_matrix.m32 * ts.matrix.m21
           + ts.matrix.m31,
     y |-> ts.text_matrix.m31 * ts.matrix.m12 + ts.text_matrix.m32 * ts.matrix.m22
           + ts.matrix.m32]

Drew == step.op \in {"TextDraw", "TextDrawAdjusted"} /\ step.word # <<>> /\ ret.kind # "Err"

\* C19: the position recorded for a drawn fragment is the translation of the
\* text matrix composed with the current transformation matrix, so a scale in
\* the transformation matrix scales the text matrix's translation
C19_PositionIsComposedTranslation ==
    Drew => prev_offset = ComposedOffset(step.ts)

\* the word of an adjusted draw when a spacing s pushes a space exactly if
\* |s| * x_factor exceeds the threshold
RECURSIVE ScaledSpacingWord(_, _, _, _)
ScaledSpacingWord(font, array, xf, word) ==
    IF array = <<>> THEN word
    ELSE LET e == array[1]
         IN IF e.is_text
            THEN ScaledSpacingWord(font, Tail(array), xf, decode(font, e.data, word).out)
            ELSE IF Abs(e.s) * xf > x_inline_threshold
                 THEN ScaledSpacingWord(font, Tail(array), xf, word \o <<SPACE>>)
                 ELSE ScaledSpacingWord(font, Tail(array), xf, word)

\* C20: in an adjusted draw a spacing value s produces a space exactly when
\* |s| multiplied by the horizontal scale of the text matrix exceeds the
\* inline threshold
C20_ScaledSpacingExceedsThreshold ==
    (step.op = "TextDrawAdjusted" /\ ret.kind # "Err") =>
        step.word = ScaledSpacingWord(step.font, step.array, Abs(step.ts.text_matrix.m11), <<>>)

(***************************************************************************)
(* Primitive and its typed accessors (src/src/file/object.rs)              *)
(*                                                                         *)
(* A Primitive is [kind, val]: val is the object number of a Reference,    *)
(* the number of an Integer, and names the contents of a Dictionary, an    *)
(* Array or a Stream.  The object table maps every object number to the    *)
(* Primitive stored under it, or to NoPrimitive when there is none.        *)
(***************************************************************************)
MaxObjects == 3
MaxDerefs == 3

Primitive(kind, val) == [kind |-> kind, val |-> val]
Reference(id) == Primitive("Reference", id)

AccessOk(p) == [NoAccess EXCEPT !.kind = "Ok", !.value = p]
AccessErr(e) == [NoAccess EXCEPT !.kind = "Err", !.err = e]

\* wrong_primitive!(Shape, p): stringify!(expected) is the text of the token
\* `expected` itself, whatever shape the macro is called with
wrong_primitive(expected, found) ==
    [AccessErr("WrongObjectType") EXCEPT !.expected = "expected", !.found = found]

\* reader.dereference(&id): the raw primitive stored under an object number
dereference(table, id) ==
    IF id \in DOMAIN table /\ table[id] # NoPrimitive
    THEN [ok |-> TRUE, value |-> table[id], err |-> ""]
    ELSE [ok |-> FALSE, value |-> NoPrimitive, err |-> "UnresolvedReference"]

\* one call of as_array / as_dictionary / as_stream on `cur`: the three arms of
\* its match.  The Reference arm calls the same accessor on the dereferenced
\* primitive, which is the next step.
AccessorCall(shape) ==
    /\ accessor = shape
    /\ result = NoAccess
    /\ IF cur.kind = shape
       THEN /\ result' = AccessOk(cur)
            /\ UNCHANGED <<cur, derefs, visited>>
       ELSE IF cur.kind = "Reference"
       THEN LET d == dereference(objects, cur.val)
            IN /\ derefs' = IF derefs < MaxDerefs THEN derefs + 1 ELSE derefs
               /\ visited' = visited \cup {cur.val}
               /\ IF d.ok
                  THEN cur' = d.value /\ UNCHANGED result
                  ELSE result' = AccessErr(d.err) /\ UNCHANGED cur
       ELSE /\ result' = wrong_primitive(shape, cur)
            /\ UNCHANGED <<cur, derefs, visited>>
    /\ UNCHANGED <<objects, receiver, accessor, decodeVars, pageVars, joinVars, batchVars,
                   trackVars, mainVars>>

as_array == AccessorCall("Array")
as_dictionary == AccessorCall("Dictionary")
as_stream == AccessorCall("Stream")

ObjectNumbers == 1 .. MaxObjects
StoredPrimitives ==
    {Primitive("Integer", 7), Primitive("Dictionary", 1), Primitive("Array", 1),
     Primitive("Stream", 1)} \cup {Reference(id) : id \in ObjectNumbers}
ObjectTables == [ObjectNumbers -> StoredPrimitives \cup {NoPrimitive}]

ObjectInit ==
    /\ objects \in ObjectTables
    /\ receiver \in StoredPrimitives
    /\ accessor \in {"Array", "Dictionary", "Stream"}
    /\ cur = receiver
    /\ derefs = 0
    /\ visited = {}
    /\ result = NoAccess
    /\ DecodeIdle /\ PageIdle /\ JoinInit /\ BatchIdle /\ TrackIdle /\ MainIdle

ObjectNext == as_array \/ as_dictionary \/ as_stream

SpecObject == ObjectInit /\ [][ObjectNext]_vars

(***************************************************************************)
(* Claims about the typed accessors (SpecObject)                           *)
(***************************************************************************)
Returned == result.kind # "none"
ThroughReference == receiver.kind = "Reference" /\ objects[receiver.val] # NoPrimitive
Target == objects[receiver.val]

\* C11: an accessor called on a Reference to a primitive of the requested shape
\* returns that primitive; called on a Reference to an Integer it fails with a
\* wrong-type error whose `expected` names the requested shape and whose `found`
\* is the Integer
C11_WrongTypeNamesRequestedShape ==
    (Returned /\ ThroughReference) =>
        /\ Target.kind = accessor => result = AccessOk(Target)
        /\ Target.kind = "Integer" =>
              /\ result.kind = "Err"
              /\ result.err = "WrongObjectType"
              /\ result.expected = accessor
              /\ result.found = Target

\* C12: one accessor call dereferences at most one Reference, and when the
\* dereferenced primitive is again a Reference the call fails with a wrong-type
\* error
C12_OneHopThenTypecheck ==
    /\ derefs <= 1
    /\ (Returned /\ ThroughReference /\ Target.kind = "Reference") =>
          result.kind = "Err" /\ result.err = "WrongObjectType"

\* C13: a call that comes back to a Reference it has already dereferenced has
\* ended with a CircularReference failure
C13_CycleEndsWithCircularReference ==
    (cur.kind = "Reference" /\ cur.val \in visited) =>
        result.kind = "Err" /\ result.err = "CircularReference"

(***************************************************************************)
(* SpecMain: main of pdf2text over the pages of one file                   *)
(*                                                                         *)
(* A page of file.pages() is [kind, spans]: "ok" (render_page draws its    *)
(* spans into the Tracer), "invalid" (the iterator yields Err) or          *)
(* "unrenderable" (render_page returns Err).                               *)
(***************************************************************************)
MaxPages == 3

RECURSIVE BatchLoop(_, _, _, _, _)
BatchLoop(list, i, r, px, py) ==
    IF i > Len(list) THEN r
    ELSE BatchLoop(list, i + 1, BatchAppend(r, list[i], px, py),
                   list[i].rect[3], list[i].rect[4])

\* items2text as one call: sort, early return, loop
items2text(list) ==
    LET sorted == SortByKey(list)
    IN IF sorted = <<>> THEN <<>> ELSE BatchLoop(sorted, 1, <<>>, 0, 0)

\* page.expect(..) and render_page(..).expect(..) on one page: the spans
\* drawn, or a panic
RenderPage(p) ==
    IF p.kind = "ok" THEN [panic |-> FALSE, spans |-> p.spans]
    ELSE [panic |-> TRUE, spans |-> <<>>]

\* --page i: lines 66-72
SinglePage ==
    /\ mpc = "pages"
    /\ arg_page > 0
    /\ IF arg_page > Len(doc)
       THEN mpc' = "panic" /\ UNCHANGED traced
       ELSE LET r == RenderPage(doc[arg_page])
            IN IF r.panic
               THEN mpc' = "panic" /\ UNCHANGED traced
               ELSE mpc' = "finish" /\ traced' = traced \o r.spans
    /\ UNCHANGED <<doc, arg_page, page_nr, printed, decodeVars, pageVars, joinVars,
                   batchVars, trackVars, objectVars>>

\* one iteration of the loop over file.pages().enumerate(): lines 74-79
NextPage ==
    /\ mpc = "pages"
    /\ arg_page = 0
    /\ page_nr < Len(doc)
    /\ LET r == RenderPage(doc[page_nr + 1])
       IN IF r.panic
          THEN mpc' = "panic" /\ UNCHANGED <<traced, page_nr>>
          ELSE /\ traced' = traced \o r.spans
               /\ page_nr' = page_nr + 1
               /\ UNCHANGED mpc
    /\ UNCHANGED <<doc, arg_page, printed, decodeVars, pageVars, joinVars, batchVars,
                   trackVars, objectVars>>

\* the iterator is exhausted
EndOfPages ==
    /\ mpc = "pages"
    /\ arg_page = 0
    /\ page_nr = Len(doc)
    /\ mpc' = "finish"
    /\ UNCHANGED <<doc, arg_page, page_nr, traced, printed, decodeVars, pageVars,
                   joinVars, batchVars, trackVars, objectVars>>

\* backend.finish(), items2text and the write of the result: lines 82-97
WriteResult ==
    /\ mpc = "finish"
    /\ printed' = [written |-> TRUE, text |-> items2text(traced)]
    /\ mpc' = "exit"
    /\ UNCHANGED <<doc, arg_page, page_nr, traced, decodeVars, pageVars, joinVars,
                   batchVars, trackVars, objectVars>>

DocPages ==
    {[kind |-> "ok", spans |-> <<HelloSpan>>], [kind |-> "ok", spans |-> <<WorldBelow>>],
     [kind |-> "invalid", spans |-> <<>>], [kind |-> "unrenderable", spans |-> <<>>]}

MainInit ==
    /\ doc \in SeqsUpTo(DocPages, MaxPages)
    /\ arg_page \in 0 .. MaxPages
    /\ mpc = "pages"
    /\ page_nr = 0
    /\ traced = <<>>
    /\ printed = NotPrinted
    /\ DecodeIdle /\ PageIdle /\ JoinInit /\ BatchIdle /\ TrackIdle /\ ObjectIdle

MainNext == SinglePage \/ NextPage \/ EndOfPages \/ WriteResult

SpecMain == MainInit /\ [][MainNext]_vars

(***************************************************************************)
(* Claims about the run over several pages (SpecMain)                      *)
(***************************************************************************)
Failed(k) == doc[k].kind # "ok"
RunEnded == mpc \in {"exit", "panic"}

\* C14: in a run over all pages a failure on page k aborts only page k: when
\* the run has ended, the text of every good page after k is in the output
C14_FailureAbortsOnlyItsPage ==
    (arg_page = 0 /\ RunEnded) =>
        \A k \in 1 .. Len(doc) : \A j \in (k + 1) .. Len(doc) :
            (Failed(k) /\ ~Failed(j)) =>
                /\ printed.written
                /\ \A i \in 1 .. Len(doc[j].spans) : contains(printed.text, doc[j].spans[i].text)

(***************************************************************************)
(* SpecTrack: the iterator ops_with_text_state with its Rc<TextState>      *)
(* cells.  `heap` holds the cells in allocation order, `state` is the      *)
(* content of the cell the scan's `state` points to.                       *)
(***************************************************************************)
\* update_state writing through the shared cell instead of replacing the Rc
update_state_in_place(cells, ptr, new_state) ==
    [heap |-> [cells EXCEPT ![ptr] = new_state], ptr |-> ptr]

\* update_state (lines 222-229): the clone of the old state, changed by update_fn
\* to new_state, goes into a new Rc cell and `state` points to it
update_state(cells, ptr, new_state) ==
    [heap |-> Append(cells, new_state), ptr |-> Len(cells) + 1]

\* Some((op, state.clone())) (line 287): the operator with the cell `state`
\* points to; `snapshot` is the cell's content when yielded and `from` the
\* state the operator's transition started from
Yielded(name, ptr, snapshot, from) ==
    [op |-> name, ptr |-> ptr, snapshot |-> snapshot, from |-> from]

ScanFontNames == {ResCMap, ResUnknown}
ScanGsNames == {"GS1", "GS2"}
ScanMoves == {<<Fx(60), 0>>}

TrackInit ==
    /\ page \in Pages
    /\ pc = "start"
    /\ fonts = <<>>
    /\ state = DefaultTextState
    /\ ret = NoReturn
    /\ nops = 0
    /\ ncont = 0
    /\ heap = <<>>
    /\ sptr = 0
    /\ emitted = <<>>
    /\ JoinInit /\ DecodeIdle /\ BatchIdle /\ ObjectIdle /\ MainIdle

\* flat_map enters the next content stream: scan starts from
\* (Rc::new(TextState::default()), FontCache::new(page, resolve)) (lines 218-220)
ScanContents ==
    /\ pc \in {"start", "ops"}
    /\ ncont < MaxContents
    /\ pc' = "ops"
    /\ ncont' = ncont + 1
    /\ state' = DefaultTextState
    /\ heap' = Append(heap, DefaultTextState)
    /\ sptr' = Len(heap) + 1
    /\ fonts' = populate(page)
    /\ UNCHANGED <<page, ret, nops, emitted, joinVars, decodeVars, batchVars, objectVars,
                   mainVars>>

\* an operator with an update_state arm: the new state ts goes through
\* update_state, and the operator is yielded with the cell
YieldUpdated(name, ts) ==
    /\ pc = "ops"
    /\ nops < MaxOps
    /\ LET u == update_state(heap, sptr, ts)
       IN /\ heap' = u.heap
          /\ sptr' = u.ptr
          /\ state' = u.heap[u.ptr]
          /\ emitted' = Append(emitted, Yielded(name, u.ptr, u.heap[u.ptr], state))
    /\ nops' = nops + 1
    /\ UNCHANGED <<page, pc, fonts, ret, ncont, joinVars, decodeVars, batchVars,
                   objectVars, mainVars>>

YieldBeginText == YieldUpdated("BeginText", OnBeginText(state))

YieldGraphicsState == \E name \in ScanGsNames :
    YieldUpdated("GraphicsState", OnGraphicsState(state, page, fonts, name))

YieldTextFont == \E name \in ScanFontNames :
    YieldUpdated("TextFont", OnTextFont(state, fonts, name, 12))

YieldLeading == \E l \in Leadings : YieldUpdated("Leading", OnLeading(state, l))

YieldTextNewline == YieldUpdated("TextNewline", OnTextNewline(state))

YieldMoveTextPosition == \E t \in ScanMoves :
    YieldUpdated("MoveTextPosition", OnMoveTextPosition(state, t[1], t[2]))

YieldTransform == \E m \in Transforms : YieldUpdated("Transform", OnTransform(state, m))

YieldSetTextMatrix == \E m \in TextMatrices :
    YieldUpdated("SetTextMatrix", OnSetTextMatrix(state, m))

\* any other operator (`_ => {}`): no update_state, the current cell is yielded
YieldOther ==
    /\ pc = "ops"
    /\ nops < MaxOps
    /\ \E name \in {"TextDraw", "EndText"} :
          emitted' = Append(emitted, Yielded(name, sptr, state, state))
    /\ nops' = nops + 1
    /\ UNCHANGED <<page, pc, fonts, state, heap, sptr, ret, ncont, joinVars, decodeVars,
                   batchVars, objectVars, mainVars>>

TrackNext ==
    \/ ScanContents
    \/ YieldBeginText
    \/ YieldGraphicsState
    \/ YieldTextFont
    \/ YieldLeading
    \/ YieldTextNewline
    \/ YieldMoveTextPosition
    \/ YieldTransform
    \/ YieldSetTextMatrix
    \/ YieldOther

SpecTrack == TrackInit /\ [][TrackNext]_vars

(***************************************************************************)
(* Claims about ops_with_text_state (SpecTrack)                            *)
(***************************************************************************)
\* C16: the TextState paired with a yielded operator never changes afterwards:
\* the cell of every pair yielded so far still holds the state it held when the
\* pair was yielded, whatever later operators did
C16_SnapshotsNeverChange ==
    \A i \in 1..Len(emitted) : heap[emitted[i].ptr] = emitted[i].snapshot

\* a later operator of the same content stream changed the state after a pair
\* was yielded
C16_Witness ==
    \E i \in 1..Len(emitted) : \E j \in (i + 1)..Len(emitted) :
        /\ emitted[j].from = emitted[i].snapshot
        /\ emitted[j].snapshot # emitted[i].snapshot
        /\ emitted[j].ptr # emitted[i].ptr

\* C17: BeginText keeps the current transformation matrix and resets text
\* matrix, font, font size and leading to their defaults
C17_BeginTextKeepsMatrix ==
    \A i \in 1..Len(emitted) : emitted[i].op = "BeginText" =>
        /\ emitted[i].snapshot.matrix = emitted[i].from.matrix
        /\ emitted[i].snapshot.text_matrix = Identity
        /\ emitted[i].snapshot.font = DefaultFontInfo
        /\ emitted[i].snapshot.font_size = 0
        /\ emitted[i].snapshot.text_leading = 0

C17_Witness ==
    \E i \in 1..Len(emitted) :
        /\ emitted[i].op = "BeginText"
        /\ emitted[i].from.matrix # Identity
        /\ emitted[i].from.font # DefaultFontInfo
        /\ emitted[i].from.font_size # 0

\* C18: the tracker starts from the default state once per page: the first
\* operator's transition starts from the default state, and every later
\* operator's transition from the state paired with the operator before it,
\* also across content streams
C18_StateContinuesAcrossStreams ==
    \A i \in 1..Len(emitted) :
        emitted[i].from = IF i = 1 THEN DefaultTextState ELSE emitted[i - 1].snapshot

(***************************************************************************)
(* Claims about horizontal jumps and gaps (SpecLayout)                     *)
(***************************************************************************)
\* the leftward jump after which items2text breaks the line (x_diff < -10.)
LeftwardJump == 10

\* fragment si of the stream and its predecessor, both with text
StreamPair == step.op = "fragment" /\ si >= 2 /\ frags[si - 1].text # <<>> /\ frags[si].text # <<>>

\* C21: in streaming mode a fragment whose horizontal position regressed by
\* more than the leftward-jump threshold while its vertical position is unchanged
\* gets a line break before it: it is never joined with a space or with no
\* separator
C21_LeftwardJumpBreaksLine ==
    StreamPair =>
        LET a == frags[si - 1]
            b == frags[si]
        IN (/\ b.rect[2] = a.rect[2]
            /\ a.rect[1] - b.rect[1] > Fx(LeftwardJump)
            /\ ~ends_with(step.before, NEWLINE))
           => step.sep = <<NEWLINE>>

\* b starts exactly at the right edge of a, at the same vertical position
Abuts(a, b) ==
    /\ a.text # <<>> /\ b.text # <<>>
    /\ b.rect[2] = a.rect[2]
    /\ a.rect[1] < a.rect[3]
    /\ b.rect[1] = a.rect[3]

\* C22: the gap that decides the space is measured from the predecessor's right
\* edge: a fragment that starts exactly at its predecessor's right edge on the
\* same line gets no space, in either mode
C22_NoSpaceAtRightEdge ==
    /\ (step.op = "fragment" /\ si >= 2 /\ Abuts(frags[si - 1], frags[si]))
          => ~contains(step.sep, <<SPACE>>)
    /\ (bstep.op = "item" /\ bi >= 2 /\ Abuts(items[bi - 1], items[bi]))
          => ~contains(bstep.sep, <<SPACE>>)

====
